---- MODULE Spec2Model ----
(***************************************************************************)
(* Model of src/app.py: the URL summarization pipeline                     *)
(* (DocumentLoaderFactory, ContentSummarizer).                             *)
(*                                                                         *)
(* Python strings that the code inspects (strip, "in", validators.url) are *)
(* sequences of one-character strings.  An error message is the sequence   *)
(* of the parts an f-string concatenates; it is the empty string when      *)
(* every part is empty.  The remote collaborators (ChatGroq constructor,   *)
(* loader.load(), chain.run) are outcomes drawn per call.                  *)
(***************************************************************************)
EXTENDS Integers, Sequences, FiniteSets

VARIABLES llm, last, first, failedInits

vars == <<llm, last, first, failedInits>>

\* ---------------------------------------------------------------- bounds
MaxFailedInits == 2

\* ------------------------------------------------------- string helpers
Min(S) == CHOOSE x \in S : \A y \in S : x <= y
Max(S) == CHOOSE x \in S : \A y \in S : x >= y

IsSpace(c) == c = " "

\* str.strip()
strip(s) ==
    LET keep == {i \in 1..Len(s) : ~IsSpace(s[i])}
    IN  IF keep = {} THEN <<>> ELSE SubSeq(s, Min(keep), Max(keep))

\* Python's  sub in s
Contains(sub, s) ==
    \E i \in 0..(Len(s) - Len(sub)) : SubSeq(s, i + 1, i + Len(sub)) = sub

StartsWith(s, p) == Len(s) >= Len(p) /\ SubSeq(s, 1, Len(p)) = p

YOUTUBE_COM == <<"y", "o", "u", "t", "u", "b", "e", ".", "c", "o", "m">>
YOUTU_BE == <<"y", "o", "u", "t", "u", ".", "b", "e">>
HTTP == <<"h", "t", "t", "p", ":", "/", "/">>
HTTPS == <<"h", "t", "t", "p", "s", ":", "/", "/">>

\* validators.url(url): truthy for scheme://host[/path] with a dotted host
\* and no whitespace, falsy otherwise (the library returns a falsy
\* ValidationError object instead of raising).
validators_url(url) ==
    LET scheme == IF StartsWith(url, HTTPS) THEN HTTPS
                  ELSE IF StartsWith(url, HTTP) THEN HTTP ELSE <<>>
        rest == SubSeq(url, Len(scheme) + 1, Len(url))
        slashes == {i \in 1..Len(rest) : rest[i] = "/"}
        host == IF slashes = {} THEN rest ELSE SubSeq(rest, 1, Min(slashes) - 1)
    IN  /\ scheme # <<>>
        /\ \A i \in 1..Len(url) : ~IsSpace(url[i])
        /\ Len(host) >= 3
        /\ \E i \in 2..(Len(host) - 1) : host[i] = "."
        /\ host[1] # "." /\ host[Len(host)] # "."

\* ------------------------------------------------------------- messages
EmptyMsg == <<>>
IsEmptyMsg(m) == \A i \in 1..Len(m) : m[i] = ""

MSG_API_KEY == <<"Please provide a valid API Key">>
MSG_NO_URL == <<"Please provide a URL">>
MSG_BAD_URL == <<"Please enter a valid URL. It can be a Youtube URL or a Website URL.">>
MSG_UNSUPPORTED == <<"Unsupported URL format">>
MSG_NOT_INITIALIZED == <<"Language model not initialized">>
MSG_INIT_FAILED == <<"Failed to initialize language model">>
MsgLoadFailed(e) == <<"Failed to load documents : ", e>>
MsgSummaryFailed(e) == <<"Failed to generate summary: ", e>>

ValidationMessages == {MSG_API_KEY, MSG_NO_URL, MSG_BAD_URL}

\* Python None, for the summary / documents component of a result
None == "<None>"

\* ------------------------------------------------------------- inputs
Credentials == { <<>>, <<" ", " ">>, <<"g", "s", "k">> }

Urls == {
    <<>>,
    <<" ">>,
    <<"a", "b", "c">>,
    <<"y", "o", "u", "t", "u", ".", "b", "e", "/", "x">>,
    <<"h", "t", "t", "p", ":", "/", "/", "a", ".", "i", "o">>,
    <<"h", "t", "t", "p", "s", ":", "/", "/", "y", "o", "u", "t", "u", "b", "e", ".", "c", "o", "m">> }

\* a collaborator that is not called in a run has no outcome
NotCalled == [raises |-> FALSE, text |-> "n/a"]

\* outcome of loader.load(): returns the documents or raises str(e) = text
FetchOutcomes == { [raises |-> FALSE, text |-> ""],
                   [raises |-> TRUE, text |-> ""],
                   [raises |-> TRUE, text |-> "timeout"] }

\* outcome of chain.run(documents): returns the summary text or raises
RunOutcomes == { [raises |-> FALSE, text |-> "S1"],
                 [raises |-> TRUE, text |-> "rate limit"] }

\* ---------------------------------------------------------- the loaders
YouTube_is_valid_url(url) == Contains(YOUTUBE_COM, url) \/ Contains(YOUTU_BE, url)

\* variant: the generic predicate without the video-platform exclusion
Website_is_valid_url_any(url) == validators_url(url)

Website_is_valid_url(url) ==
    validators_url(url) /\ ~Contains(YOUTUBE_COM, url) /\ ~Contains(YOUTU_BE, url)

\* variant: the website loader is not registered
loaders_youtube_only == <<"youtube">>

\* DocumentLoaderFactory.loaders, in registration order
loaders == <<"youtube", "website">>

is_valid_url(loader, url) ==
    IF loader = "youtube" THEN YouTube_is_valid_url(url) ELSE Website_is_valid_url(url)

\* first registered loader whose predicate holds, or "none"
get_loader(url) ==
    LET hits == {i \in 1..Len(loaders) : is_valid_url(loaders[i], url)}
    IN  IF hits = {} THEN "none" ELSE loaders[Min(hits)]

\* the network call each loader's load_documents makes
FetchEvent(loader) ==
    IF loader = "youtube" THEN "YoutubeLoader.load" ELSE "UnstructuredURLLoader.load"

FetchEvents == {"YoutubeLoader.load", "UnstructuredURLLoader.load"}

NoDocuments == [loader |-> "none", url |-> <<>>]

\* ---------------------------------------------------- ContentSummarizer
NoneLlm == [kind |-> "None", groq_api_key |-> <<>>]
ChatGroq(key) == [kind |-> "ChatGroq", groq_api_key |-> key]

\* variant: an existing client is reused instead of constructing a new one
initialize_llm_cached(self_llm, groq_api_key, groqRaises) ==
    IF self_llm # NoneLlm
    THEN [ret |-> TRUE, llm |-> self_llm, trace |-> <<>>]
    ELSE IF ~groqRaises
    THEN [ret |-> TRUE, llm |-> ChatGroq(groq_api_key), trace |-> <<"ChatGroq">>]
    ELSE [ret |-> FALSE, llm |-> self_llm, trace |-> <<"ChatGroq">>]

\* initialize_llm: return value, the llm field afterwards, the calls made
initialize_llm(self_llm, groq_api_key, groqRaises) ==
    IF ~groqRaises
    THEN [ret |-> TRUE, llm |-> ChatGroq(groq_api_key), trace |-> <<"ChatGroq">>]
    ELSE [ret |-> FALSE, llm |-> self_llm, trace |-> <<"ChatGroq">>]

\* variant: the credential is compared without strip()
validate_inputs_no_strip(groq_api_key, url) ==
    IF groq_api_key = <<>> THEN [ok |-> FALSE, error |-> MSG_API_KEY]
    ELSE IF strip(url) = <<>> THEN [ok |-> FALSE, error |-> MSG_NO_URL]
    ELSE IF ~validators_url(url) THEN [ok |-> FALSE, error |-> MSG_BAD_URL]
    ELSE [ok |-> TRUE, error |-> EmptyMsg]

\* variant: the URL-syntax check is left out
validate_inputs_no_syntax_check(groq_api_key, url) ==
    IF strip(groq_api_key) = <<>> THEN [ok |-> FALSE, error |-> MSG_API_KEY]
    ELSE IF strip(url) = <<>> THEN [ok |-> FALSE, error |-> MSG_NO_URL]
    ELSE [ok |-> TRUE, error |-> EmptyMsg]

validate_inputs(groq_api_key, url) ==
    IF strip(groq_api_key) = <<>> THEN [ok |-> FALSE, error |-> MSG_API_KEY]
    ELSE IF strip(url) = <<>> THEN [ok |-> FALSE, error |-> MSG_NO_URL]
    ELSE IF ~validators_url(url) THEN [ok |-> FALSE, error |-> MSG_BAD_URL]
    ELSE [ok |-> TRUE, error |-> EmptyMsg]

\* variant: no try/except around the loader call
load_documents_no_try(url, fetch) ==
    LET loader == get_loader(url)
    IN  IF loader = "none"
        THEN [documents |-> NoDocuments, isNone |-> TRUE, error |-> MSG_UNSUPPORTED,
              raised |-> FALSE, trace |-> <<>>]
        ELSE IF fetch.raises
        THEN [documents |-> NoDocuments, isNone |-> TRUE, error |-> EmptyMsg,
              raised |-> TRUE, trace |-> <<FetchEvent(loader)>>]
        ELSE [documents |-> [loader |-> loader, url |-> url], isNone |-> FALSE,
              error |-> EmptyMsg,
              raised |-> FALSE, trace |-> <<FetchEvent(loader)>>]

\* load_documents: (documents, error); raised = an exception left the method
load_documents(url, fetch) ==
    LET loader == get_loader(url)
    IN  IF loader = "none"
        THEN [documents |-> NoDocuments, isNone |-> TRUE, error |-> MSG_UNSUPPORTED,
              raised |-> FALSE, trace |-> <<>>]
        ELSE IF fetch.raises
        THEN [documents |-> NoDocuments, isNone |-> TRUE,
              error |-> MsgLoadFailed(fetch.text),
              raised |-> FALSE, trace |-> <<FetchEvent(loader)>>]
        ELSE [documents |-> [loader |-> loader, url |-> url], isNone |-> FALSE,
              error |-> EmptyMsg,
              raised |-> FALSE, trace |-> <<FetchEvent(loader)>>]

\* variant: the chain is run without checking self.llm
summarize_content_unchecked(self_llm, documents, run) ==
    IF run.raises \/ self_llm = NoneLlm
    THEN [summary |-> None, error |-> MsgSummaryFailed(run.text), raised |-> FALSE,
          trace |-> <<"chain.run">>]
    ELSE [summary |-> run.text, error |-> EmptyMsg, raised |-> FALSE,
          trace |-> <<"chain.run">>]

summarize_content(self_llm, documents, run) ==
    IF self_llm = NoneLlm
    THEN [summary |-> None, error |-> MSG_NOT_INITIALIZED, raised |-> FALSE,
          trace |-> <<>>]
    ELSE IF run.raises
    THEN [summary |-> None, error |-> MsgSummaryFailed(run.text), raised |-> FALSE,
          trace |-> <<"chain.run">>]
    ELSE [summary |-> run.text, error |-> EmptyMsg, raised |-> FALSE,
          trace |-> <<"chain.run">>]

\* variant: the return value of initialize_llm is ignored
process_url_ignores_init(self_llm, groq_api_key, url, groqRaises, fetch, run) ==
    LET v == validate_inputs(groq_api_key, url)
        i == initialize_llm(self_llm, groq_api_key, groqRaises)
        d == load_documents(url, fetch)
    IN  IF ~v.ok
        THEN [summary |-> None, error |-> v.error, raised |-> FALSE, llm |-> self_llm,
              trace |-> <<"validate_inputs">>]
        ELSE [summary |-> None, error |-> d.error, raised |-> d.raised, llm |-> i.llm,
              trace |-> <<"validate_inputs", "initialize_llm">> \o i.trace
                        \o <<"load_documents">> \o d.trace]

\* process_url.  The method returns (None, error_msg) right after
\* load_documents (line 166); the statements after that return are never
\* executed, so `run` is not consulted.
process_url(self_llm, groq_api_key, url, groqRaises, fetch, run) ==
    LET v == validate_inputs(groq_api_key, url)
        i == initialize_llm(self_llm, groq_api_key, groqRaises)
        d == load_documents(url, fetch)
    IN  IF ~v.ok
        THEN [summary |-> None, error |-> v.error, raised |-> FALSE, llm |-> self_llm,
              trace |-> <<"validate_inputs">>]
        ELSE IF ~i.ret
        THEN [summary |-> None, error |-> MSG_INIT_FAILED, raised |-> FALSE,
              llm |-> i.llm,
              trace |-> <<"validate_inputs", "initialize_llm">> \o i.trace]
        ELSE [summary |-> None, error |-> d.error, raised |-> d.raised, llm |-> i.llm,
              trace |-> <<"validate_inputs", "initialize_llm">> \o i.trace
                        \o <<"load_documents">> \o d.trace]

\* ------------------------------------------------------------ the state
\* llm          ContentSummarizer.llm
\* last         the most recent call on the instance: inputs, collaborator
\*              outcomes, returned value, and the calls it made (trace)
\* first        the first process_url call on the instance
\* failedInits  number of ChatGroq constructions that raised
NoCall == [op |-> "none", seq |-> 0, groq_api_key |-> <<>>, url |-> <<>>,
           groqRaises |-> FALSE, fetch |-> NotCalled, run |-> NotCalled,
           documents |-> NoDocuments, loader |-> "none",
           ok |-> FALSE, summary |-> None, isNone |-> TRUE, error |-> EmptyMsg,
           raised |-> FALSE, trace |-> <<>>]

Init ==
    /\ llm = NoneLlm
    /\ last = NoCall
    /\ first = NoCall
    /\ failedInits = 0

Has(seq, e) == \E i \in 1..Len(seq) : seq[i] = e
Count(seq, e) == Cardinality({i \in 1..Len(seq) : seq[i] = e})

\* the outcomes the collaborators of one pipeline run can have: a stage
\* that the preceding stages do not let through has none
PipelineOutcomes(k, u) ==
    IF ~validate_inputs(k, u).ok
    THEN { [groqRaises |-> FALSE, fetch |-> NotCalled, run |-> NotCalled] }
    ELSE { [groqRaises |-> TRUE, fetch |-> NotCalled, run |-> NotCalled] }
         \cup
         (IF get_loader(u) = "none"
          THEN { [groqRaises |-> FALSE, fetch |-> NotCalled, run |-> NotCalled] }
          ELSE { [groqRaises |-> FALSE, fetch |-> f, run |-> NotCalled] :
                    f \in {x \in FetchOutcomes : x.raises} }
               \cup
               { [groqRaises |-> FALSE, fetch |-> f, run |-> r] :
                    f \in {x \in FetchOutcomes : ~x.raises}, r \in RunOutcomes })

\* a caller invokes process_url(groq_api_key, url)
ProcessUrl ==
    \E k \in Credentials, u \in Urls :
      \E o \in PipelineOutcomes(k, u) :
        \E res \in {process_url(llm, k, u, o.groqRaises, o.fetch, o.run)} :
          \E failed \in {IF Has(res.trace, "ChatGroq") /\ o.groqRaises THEN 1 ELSE 0} :
            \E rec \in {[NoCall EXCEPT !.op = "process_url",
                            !.seq = IF first.op = "none" THEN 1 ELSE 2,
                            !.groq_api_key = k, !.url = u,
                            !.groqRaises = o.groqRaises, !.fetch = o.fetch,
                            !.run = o.run,
                            !.summary = res.summary, !.error = res.error,
                            !.isNone = (res.summary = None),
                            !.raised = res.raised, !.trace = res.trace]} :
                /\ failedInits + failed <= MaxFailedInits
                /\ llm' = res.llm
                /\ last' = rec
                /\ first' = IF first.op = "none" THEN rec ELSE first
                /\ failedInits' = failedInits + failed

\* a caller invokes initialize_llm(groq_api_key) directly
InitializeLlm ==
    \E k \in Credentials, g \in BOOLEAN :
        \E res \in {initialize_llm(llm, k, g)} :
          \E failed \in {IF g THEN 1 ELSE 0} :
            /\ failedInits + failed <= MaxFailedInits
            /\ llm' = res.llm
            /\ last' = [NoCall EXCEPT !.op = "initialize_llm", !.groq_api_key = k,
                            !.groqRaises = g, !.ok = res.ret, !.trace = res.trace]
            /\ failedInits' = failedInits + failed
            /\ UNCHANGED first

\* a caller invokes loader_factory.get_loader(url) directly
GetLoader ==
    \E u \in Urls :
        /\ last' = [NoCall EXCEPT !.op = "get_loader", !.url = u,
                        !.loader = get_loader(u)]
        /\ UNCHANGED <<llm, first, failedInits>>

\* a caller invokes load_documents(url) directly
LoadDocuments ==
    \E u \in Urls, f \in FetchOutcomes \cup {NotCalled} :
        \E res \in {load_documents(u, f)} :
            /\ (f = NotCalled) <=> (get_loader(u) = "none")
            /\ last' = [NoCall EXCEPT !.op = "load_documents", !.url = u, !.fetch = f,
                            !.documents = res.documents, !.isNone = res.isNone,
                            !.error = res.error, !.raised = res.raised,
                            !.trace = res.trace]
            /\ UNCHANGED <<llm, first, failedInits>>

\* documents a caller can hand to summarize_content
SomeDocuments ==
    { [loader |-> "youtube", url |-> <<"h", "t", "t", "p", "s", ":", "/", "/", "y", "o", "u", "t", "u", "b", "e", ".", "c", "o", "m">>],
      [loader |-> "website", url |-> <<"h", "t", "t", "p", ":", "/", "/", "a", ".", "i", "o">>] }

\* a caller invokes summarize_content(documents) directly
SummarizeContent ==
    \E d \in SomeDocuments, r \in RunOutcomes \cup {NotCalled} :
        \E res \in {summarize_content(llm, d, r)} :
            /\ (r = NotCalled) <=> (llm = NoneLlm)
            /\ last' = [NoCall EXCEPT !.op = "summarize_content", !.documents = d,
                            !.run = r,
                            !.summary = res.summary, !.isNone = (res.summary = None),
                            !.error = res.error, !.raised = res.raised,
                            !.trace = res.trace]
            /\ UNCHANGED <<llm, first, failedInits>>

Next ==
    \/ ProcessUrl
    \/ InitializeLlm
    \/ GetLoader
    \/ LoadDocuments
    \/ SummarizeContent

Spec == Init /\ [][Next]_vars

TypeOK ==
    /\ llm \in {NoneLlm} \cup {ChatGroq(k) : k \in Credentials}
    /\ failedInits \in 0..MaxFailedInits
    /\ last.op \in {"none", "process_url", "initialize_llm", "get_loader",
                    "load_documents", "summarize_content"}

\* ------------------------------------------------------------ properties
IsProcessUrl == last.op = "process_url"

\* the string is empty or consists of whitespace only
Blank(str) == \A i \in 1..Len(str) : str[i] = " "

\* the URL contains "youtube.com" or "youtu.be"
HasVideoFragment(url) == Contains(YOUTUBE_COM, url) \/ Contains(YOUTU_BE, url)

LoaderInvoked(trace) == \E e \in FetchEvents : Has(trace, e)
ClientConstructed(trace) == Has(trace, "ChatGroq")
ModelInvoked(trace) == Has(trace, "chain.run")

\* validation passes: credential and URL not blank, URL well-formed
ValidationPasses(c) ==
    ~Blank(c.groq_api_key) /\ ~Blank(c.url) /\ validators_url(c.url)

StageOrder == <<"validate_inputs", "initialize_llm", "load_documents", "summarize_content">>
IsStage(e) == \E i \in 1..Len(StageOrder) : StageOrder[i] = e
Stages(trace) == SelectSeq(trace, IsStage)
Index(seq, e) == Min({i \in 1..Len(seq) : seq[i] = e})

\* C1: a process_url call in which validation, model-client construction,
\* the document load and the summarization call all succeed reaches the
\* Summarize stage and returns (summary, "") with the model's text.
C1_FullPipelineReturnsSummary ==
    ( /\ IsProcessUrl
      /\ ValidationPasses(last)
      /\ ~last.groqRaises
      /\ last.fetch \in FetchOutcomes /\ ~last.fetch.raises
      /\ last.run \in RunOutcomes /\ ~last.run.raises )
    => /\ Has(last.trace, "summarize_content")
       /\ last.summary = last.run.text
       /\ IsEmptyMsg(last.error)

\* C2: every result of process_url has exactly one component populated:
\* a summary with an empty message, or no summary with a non-empty message.
C2_ExactlyOnePopulated ==
    IsProcessUrl =>
        \/ (last.summary # None /\ IsEmptyMsg(last.error))
        \/ (last.summary = None /\ ~IsEmptyMsg(last.error))

\* C3: with an empty or whitespace-only credential, whatever the URL,
\* process_url returns (None, "Please provide a valid API Key"), constructs
\* no model client and invokes no loader.
C3_BlankCredentialStopsAtValidate ==
    (IsProcessUrl /\ Blank(last.groq_api_key))
    => /\ last.summary = None
       /\ last.error = MSG_API_KEY
       /\ ~ClientConstructed(last.trace)
       /\ ~LoaderInvoked(last.trace)
       /\ ~last.raised

C3_Witness ==
    /\ IsProcessUrl
    /\ last.groq_api_key = <<" ", " ">>
    /\ validators_url(last.url)
    /\ last.error = MSG_API_KEY

\* C4: for a URL that fails the URL-syntax check (the empty and the
\* whitespace-only URL included) process_url fails at Validate with a
\* validation message; no loader is invoked, no model client constructed.
C4_InvalidUrlStopsAtValidate ==
    (IsProcessUrl /\ ~validators_url(last.url))
    => /\ last.summary = None
       /\ last.error \in ValidationMessages
       /\ Stages(last.trace) = <<"validate_inputs">>
       /\ ~LoaderInvoked(last.trace)
       /\ ~ClientConstructed(last.trace)

C4_Witness ==
    /\ IsProcessUrl
    /\ ~Blank(last.groq_api_key)
    /\ ~validators_url(last.url)
    /\ HasVideoFragment(last.url)
    /\ last.error = MSG_BAD_URL

\* C5: for a URL containing "youtube.com" or "youtu.be", syntactically
\* valid or not, get_loader returns the video loader; and the two loaders'
\* applicability predicates never both hold for the same URL.
C5_VideoUrlGetsVideoLoader ==
    /\ (last.op = "get_loader" /\ HasVideoFragment(last.url)) => last.loader = "youtube"
    /\ (last.op = "get_loader")
        => ~(YouTube_is_valid_url(last.url) /\ Website_is_valid_url(last.url))

C5_Witness ==
    /\ last.op = "get_loader"
    /\ HasVideoFragment(last.url)
    /\ validators_url(last.url)
    /\ last.loader = "youtube"

\* C6: summarize_content on an instance whose llm is still None (also after
\* failed initialize_llm calls) returns (None, "Language model not
\* initialized") and makes no call to the remote model.
C6_UninitializedModelRejected ==
    (last.op = "summarize_content" /\ llm = NoneLlm)
    => /\ last.summary = None
       /\ last.error = MSG_NOT_INITIALIZED
       /\ ~ModelInvoked(last.trace)
       /\ ~last.raised

C6_Witness ==
    /\ last.op = "summarize_content"
    /\ llm = NoneLlm
    /\ failedInits >= 1
    /\ last.error = MSG_NOT_INITIALIZED

\* C7: a process_url call with the same inputs and the same collaborator
\* outcomes as the first call on the instance returns the same result,
\* whatever the llm field holds when it starts.
SameInputs(a, b) ==
    /\ a.groq_api_key = b.groq_api_key
    /\ a.url = b.url
    /\ a.groqRaises = b.groqRaises
    /\ a.fetch = b.fetch
    /\ a.run = b.run

C7_SameInputsSameResult ==
    (first.op = "process_url" /\ IsProcessUrl /\ SameInputs(first, last))
    => /\ last.summary = first.summary
       /\ last.error = first.error
       /\ last.raised = first.raised

C7_Witness ==
    /\ IsProcessUrl
    /\ last.seq = 2
    /\ SameInputs(first, last)
    /\ ValidationPasses(last)
    /\ last.groqRaises
    /\ llm # NoneLlm

\* C8: a stage failure (client construction, loader fetch or remote
\* completion raising) becomes a returned (None, non-empty message); no
\* exception leaves the call and no collaborator is called twice in a call.
StageFailed(c) ==
    \/ (ClientConstructed(c.trace) /\ c.groqRaises)
    \/ (LoaderInvoked(c.trace) /\ c.fetch.raises)
    \/ (ModelInvoked(c.trace) /\ c.run.raises)

C8_FailuresBecomeResults ==
    (last.op \in {"process_url", "load_documents", "summarize_content"})
    => /\ ~last.raised
       /\ \A e \in FetchEvents \cup {"ChatGroq", "chain.run"} : Count(last.trace, e) <= 1
       /\ StageFailed(last) => (last.isNone /\ ~IsEmptyMsg(last.error))

C8_Witness ==
    /\ IsProcessUrl
    /\ LoaderInvoked(last.trace)
    /\ last.fetch.raises
    /\ last.fetch.text = ""
    /\ last.error = MsgLoadFailed("")

\* C9: in a process_url call the stages start in the order Validate,
\* Initialize, Load, Summarize, each only after the previous one succeeded;
\* a fetch follows a successful construction in the same call; a failed
\* construction returns (None, "Failed to initialize language model")
\* without invoking a loader or the model.
C9_StagesInOrder ==
    IsProcessUrl =>
        /\ Stages(last.trace) = SubSeq(StageOrder, 1, Len(Stages(last.trace)))
        /\ Has(last.trace, "initialize_llm") => ValidationPasses(last)
        /\ Has(last.trace, "load_documents")
            => (ClientConstructed(last.trace) /\ ~last.groqRaises
                /\ llm = ChatGroq(last.groq_api_key))
        /\ Has(last.trace, "summarize_content")
            => (LoaderInvoked(last.trace) /\ ~last.fetch.raises)
        /\ \A e \in FetchEvents : Has(last.trace, e)
            => (/\ ClientConstructed(last.trace)
                /\ Index(last.trace, "ChatGroq") < Index(last.trace, e)
                /\ ~last.groqRaises)
        /\ (ValidationPasses(last) /\ last.groqRaises)
            => (/\ last.summary = None
                /\ last.error = MSG_INIT_FAILED
                /\ ~LoaderInvoked(last.trace)
                /\ ~ModelInvoked(last.trace))

C9_Witness ==
    /\ IsProcessUrl
    /\ ValidationPasses(last)
    /\ last.groqRaises
    /\ last.error = MSG_INIT_FAILED
    /\ Stages(last.trace) = <<"validate_inputs", "initialize_llm">>

\* C10: for a URL that passes validate_inputs get_loader returns a loader
\* (video if the URL has a video-platform fragment, else website), so
\* process_url never returns "Unsupported URL format"; load_documents
\* called directly returns it exactly for a URL that is neither
\* syntactically valid nor contains a video-platform fragment.
ExpectedFetch(url) ==
    IF HasVideoFragment(url) THEN "YoutubeLoader.load" ELSE "UnstructuredURLLoader.load"

C10_UnsupportedOnlyDirect ==
    /\ IsProcessUrl
        => (/\ last.error # MSG_UNSUPPORTED
            /\ Has(last.trace, "load_documents") => Has(last.trace, ExpectedFetch(last.url)))
    /\ (last.op = "get_loader" /\ ~Blank(last.url) /\ validators_url(last.url))
        => last.loader = (IF HasVideoFragment(last.url) THEN "youtube" ELSE "website")
    /\ (last.op = "load_documents")
        => ((last.error = MSG_UNSUPPORTED)
                <=> (~validators_url(last.url) /\ ~HasVideoFragment(last.url)))

C10_Witness ==
    /\ IsProcessUrl
    /\ ~HasVideoFragment(last.url)
    /\ Has(last.trace, "UnstructuredURLLoader.load")
    /\ llm = ChatGroq(last.groq_api_key)
====
